---- MODULE Spec2Model ----
(***************************************************************************)
(* SqlAuthService (bareasgi_auth_server_sqlite/sql_auth_service.py): the   *)
(* users, roles and members tables of the backing store, the service's     *)
(* cached table handles, and one action per method of the service.         *)
(*                                                                         *)
(* Every action records the call it models in the last_* variables: the    *)
(* method, its arguments, whether the store failed under it, the exception *)
(* that left the method (if any) and the value it returned.  The tables in *)
(* the same state are the tables as that call left them.                   *)
(***************************************************************************)
EXTENDS Naturals, Sequences, FiniteSets, TLC

VARIABLES
    tables,     \* names of the tables that exist in the database
    opened,     \* self._users, self._roles, self._members are not None
    users,      \* rows of table users
    roles,      \* rows of table roles
    members,    \* rows of table members
    password_of,\* history: user name -> the plaintext of the stored credential
    txn,        \* the open transaction of an update_user_roles under way
    last_op,    \* the most recent call: the method,
    last_raised,\*   the exception that left it ("" when it returned),
    last_fault, \*   whether the store failed under it,
    last_args,  \*   its arguments
    last_ret    \*   and the value it returned

vars == <<tables, opened, users, roles, members, password_of, txn,
          last_op, last_raised, last_fault, last_args, last_ret>>

(***************************************************************************)
(* Inputs.                                                                 *)
(***************************************************************************)
UserNames == {"admin", "alice"}
RoleNames == {"admin", "staff"}
\* "p" \o "s1" and "ps" \o "s1" differ only because the salt has a fixed width
Passwords == {"p", "ps"}
\* uuid.uuid4().hex values: equal width, drawn at random (a repeat is possible)
Salts == {"s1", "s2"}
Descriptions == {"none"}

\* the largest id the model lets the users and the roles table hand out
MaxId == 2
\* the largest id the model lets the members table hand out
MaxMemberId == 1

(***************************************************************************)
(* Values a call can produce.                                              *)
(***************************************************************************)
None == <<>>
Some(v) == <<v>>
NoResult == "no result"

(***************************************************************************)
(* Password Hasher.                                                        *)
(***************************************************************************)
\* hashlib.sha512(data).hexdigest(): a collision-free one-way digest of data
sha512(data) == [sha512 |-> data]

_hash_password(password, salt) ==
    [salt |-> salt, hashed_password |-> sha512(password \o salt)]

\* a faulty variant: the salt left out of the digest that is compared
_is_valid_password_unsalted(password, salt, hashed_password) ==
    hashed_password = sha512(password)

_is_valid_password(password, salt, hashed_password) ==
    hashed_password = sha512(password \o salt)

(***************************************************************************)
(* Storage: row ids, constraints and the joins the statements are built    *)
(* from.                                                                   *)
(***************************************************************************)
SetMax(S) == CHOOSE m \in S : \A x \in S : x <= m

\* INTEGER PRIMARY KEY of an SQLite table: one more than the largest id in use
NextId(ids) == IF ids = {} THEN 1 ELSE SetMax(ids) + 1

UserIds == {u.user_id : u \in users}
RoleIds == {r.role_id : r \in roles}
MemberIds == {m.member_id : m \in members}

UserRows(name) == {u \in users : u.name = name}
RoleRows(name) == {r \in roles : r.name = name}

\* members JOIN users ON users.user_id = members.user_id
\*         JOIN roles ON roles.role_id = members.role_id
MemberJoin ==
    {j \in [member : members, user : users, role : roles] :
        /\ j.user.user_id = j.member.user_id
        /\ j.role.role_id = j.member.role_id}

\* the columns _define_members_table gives the members table
MembersColumns == {"member_id", "user_id", "role_id"}

(***************************************************************************)
(* Outcomes of the methods: what the method raises or returns, and for a   *)
(* method that writes, the table as the call leaves it.  `fault` is the    *)
(* store failing (a driver or connectivity error) when the method reaches  *)
(* it; the transaction of a method that raises is rolled back.             *)
(***************************************************************************)
Ret(v) == [raised |-> "", ret |-> v]
Exc(e) == [raised |-> e, ret |-> NoResult]

user_exists(name, fault) ==
    IF ~opened THEN Exc("AssertionError")
    ELSE IF fault THEN Exc("OperationalError")
    ELSE Ret(UserRows(name) # {})

\* a faulty variant: any row counts, enabled or not
user_is_enabled_any_row(name, fault) ==
    IF ~opened THEN Exc("AssertionError")
    ELSE IF fault THEN Exc("OperationalError")
    ELSE Ret(UserRows(name) # {})

user_is_enabled(name, fault) ==
    IF ~opened THEN Exc("AssertionError")
    ELSE IF fault THEN Exc("OperationalError")
    ELSE Ret(\E row \in UserRows(name) : row.is_enabled)

check_password(name, password, fault) ==
    IF ~opened THEN Exc("AssertionError")
    ELSE IF fault THEN Exc("OperationalError")
    ELSE Ret(\E row \in UserRows(name) :
                _is_valid_password(password, row.salt, row.hashed_password))

\* a faulty variant: no try/except around the password check
authenticate_unguarded(username, password, fault) ==
    LET checked == check_password(username, password, fault)
    IN  IF checked.raised # "" THEN Exc(checked.raised)
        ELSE IF checked.ret THEN Ret(Some(username))
        ELSE Ret(None)

authenticate(username, password, fault) ==
    LET checked == check_password(username, password, fault)
    IN  IF checked.raised # "" THEN Ret(None)
        ELSE IF checked.ret THEN Ret(Some(username))
        ELSE Ret(None)

is_valid_user(user, fault) == user_is_enabled(user, fault)

Wrote(v, rows) == [raised |-> "", ret |-> v, rows |-> rows]
Failed(e, rows) == [raised |-> e, ret |-> NoResult, rows |-> rows]

\* a faulty variant: INSERT OR REPLACE, the row of a taken name is overwritten
add_user_insert_replace(name, password, salt, is_enabled) ==
    LET h == _hash_password(password, salt)
    IN  IF UserRows(name) # {}
        THEN Wrote(FALSE,
                   {IF u.name = name
                    THEN [u EXCEPT !.salt = h.salt,
                                   !.hashed_password = h.hashed_password,
                                   !.is_enabled = is_enabled]
                    ELSE u : u \in users})
        ELSE Wrote(TRUE,
                   users \cup {[user_id |-> NextId(UserIds), name |-> name,
                                salt |-> h.salt,
                                hashed_password |-> h.hashed_password,
                                is_enabled |-> is_enabled]})

\* the INSERT of add_user and what add_user makes of its outcome
add_user_insert(name, password, salt, is_enabled) ==
    LET h == _hash_password(password, salt)
        row == [user_id |-> NextId(UserIds), name |-> name, salt |-> h.salt,
                hashed_password |-> h.hashed_password, is_enabled |-> is_enabled]
    IN  \* UniqueConstraint('name'): IntegrityError, caught
        IF UserRows(name) # {} THEN Wrote(FALSE, users)
        ELSE Wrote(TRUE, users \cup {row})

add_user(name, password, salt, is_enabled, fault) ==
    IF ~opened THEN Failed("AssertionError", users)
    ELSE IF fault THEN Failed("OperationalError", users)
    ELSE add_user_insert(name, password, salt, is_enabled)

\* a faulty variant: the digest is updated and the salt column is not
change_password_keep_salt(name, password, salt, fault) ==
    LET h == _hash_password(password, salt)
        updated == {IF u.name = name
                    THEN [u EXCEPT !.hashed_password = h.hashed_password]
                    ELSE u : u \in users}
    IN  IF ~opened THEN Failed("AssertionError", users)
        ELSE IF fault THEN Failed("OperationalError", users)
        ELSE Wrote(Cardinality(UserRows(name)) = 1, updated)

change_password(name, password, salt, fault) ==
    LET h == _hash_password(password, salt)
        updated == {IF u.name = name
                    THEN [u EXCEPT !.salt = h.salt,
                                   !.hashed_password = h.hashed_password]
                    ELSE u : u \in users}
    IN  IF ~opened THEN Failed("AssertionError", users)
        ELSE IF fault THEN Failed("OperationalError", users)
        ELSE Wrote(Cardinality(UserRows(name)) = 1, updated)

delete_user(name, fault) ==
    IF ~opened THEN Failed("AssertionError", users)
    ELSE IF fault THEN Failed("OperationalError", users)
    ELSE Wrote(Cardinality(UserRows(name)) = 1, users \ UserRows(name))

\* a faulty variant: the roles table has no unique constraint on the name
add_role_no_unique(name, description, fault) ==
    LET row == [role_id |-> NextId(RoleIds), name |-> name,
                description |-> description]
    IN  IF ~opened THEN Failed("AssertionError", roles)
        ELSE IF fault THEN Failed("OperationalError", roles)
        ELSE Wrote(TRUE, roles \cup {row})

add_role(name, description, fault) ==
    LET row == [role_id |-> NextId(RoleIds), name |-> name,
                description |-> description]
    IN  IF ~opened THEN Failed("AssertionError", roles)
        ELSE IF fault THEN Failed("OperationalError", roles)
        \* UniqueConstraint('name'): IntegrityError, caught
        ELSE IF RoleRows(name) # {} THEN Wrote(FALSE, roles)
        ELSE Wrote(TRUE, roles \cup {row})

delete_role(name, fault) ==
    IF ~opened THEN Failed("AssertionError", roles)
    ELSE IF fault THEN Failed("OperationalError", roles)
    ELSE Wrote(Cardinality(RoleRows(name)) = 1, roles \ RoleRows(name))

role_exists(group, fault) ==
    IF ~opened THEN Exc("AssertionError")
    ELSE IF fault THEN Exc("OperationalError")
    ELSE Ret(RoleRows(group) # {})

has_role(user, group, fault) ==
    IF ~opened THEN Exc("AssertionError")
    ELSE IF fault THEN Exc("OperationalError")
    ELSE Ret(\E j \in MemberJoin : j.user.name = user /\ j.role.name = group)

role_users(role, fault) ==
    IF ~opened THEN Exc("AssertionError")
    ELSE IF fault THEN Exc("OperationalError")
    ELSE Ret({j.user.name : j \in {x \in MemberJoin : x.role.name = role}})

\* a faulty variant: the roles are joined on the member id of the row
user_roles_by_member_id(user, fault) ==
    IF ~opened THEN Exc("AssertionError")
    ELSE IF fault THEN Exc("OperationalError")
    ELSE Ret({r.name : r \in {x \in roles :
                \E m \in members, u \in users :
                    /\ m.member_id = x.role_id
                    /\ u.user_id = m.user_id /\ u.name = user}})

user_roles(user, fault) ==
    IF ~opened THEN Exc("AssertionError")
    ELSE IF fault THEN Exc("OperationalError")
    ELSE Ret({j.role.name : j \in {x \in MemberJoin : x.user.name = user}})

authorizations(user, fault) == user_roles(user, fault)

\* a faulty variant: the WHERE clause joins its two conditions with OR
grant_either_name(user, role, fault) ==
    LET selected == {[user_id |-> q[1].user_id, role_id |-> q[2].role_id] :
                        q \in {x \in users \X roles :
                                  x[1].name = user \/ x[2].name = role}}
        duplicate == \E s \in selected : \E m \in members :
                        m.user_id = s.user_id /\ m.role_id = s.role_id
        inserted == {[member_id |-> NextId(MemberIds), user_id |-> s.user_id,
                      role_id |-> s.role_id] : s \in selected}
    IN  IF ~opened THEN Failed("AssertionError", members)
        ELSE IF fault THEN Failed("OperationalError", members)
        ELSE IF duplicate THEN Failed("IntegrityError", members)
        ELSE Wrote(Cardinality(selected) = 1, members \cup inserted)

grant(user, role, fault) ==
    LET \* SELECT users.user_id, roles.role_id FROM users, roles WHERE ...
        selected == {[user_id |-> u.user_id, role_id |-> r.role_id] :
                        u \in UserRows(user), r \in RoleRows(role)}
        \* UniqueConstraint('user_id', 'role_id')
        duplicate == \E s \in selected : \E m \in members :
                        m.user_id = s.user_id /\ m.role_id = s.role_id
        inserted == {[member_id |-> NextId(MemberIds), user_id |-> s.user_id,
                      role_id |-> s.role_id] : s \in selected}
    IN  IF ~opened THEN Failed("AssertionError", members)
        ELSE IF fault THEN Failed("OperationalError", members)
        ELSE IF duplicate THEN Failed("IntegrityError", members)
        ELSE Wrote(Cardinality(selected) = 1, members \cup inserted)

revoke(user, role, fault) ==
    LET \* EXISTS (SELECT ... FROM members JOIN users ... JOIN roles ...): the
        \* subquery names no row of the DELETE, so it is one truth value
        found == \E m \in members, u \in users, r \in roles :
                    /\ u.user_id = m.user_id /\ u.name = user
                    /\ r.role_id = m.member_id /\ r.name = role
        kept == IF found THEN {} ELSE members
    IN  IF ~opened THEN Failed("AssertionError", members)
        \* self._members.c.id: the table has no such column
        ELSE IF "id" \notin MembersColumns THEN Failed("AttributeError", members)
        ELSE IF fault THEN Failed("OperationalError", members)
        ELSE Wrote(Cardinality(members \ kept) = 1, kept)

\* a faulty variant: the DELETE is committed on its own
Rollback_after_commit(before, uncommitted) == uncommitted

\* a transaction left by an exception: what it wrote is discarded
Rollback(before, uncommitted) == before

\* the DELETE of update_user_roles: EXISTS over members JOIN users ON
\* users.user_id = members.member_id, one truth value for every row
update_user_roles_delete(user) ==
    IF \E m \in members, u \in users :
            u.user_id = m.member_id /\ u.name = user
    THEN {} ELSE members

\* a faulty variant: the INSERT is left out and the DELETE committed
update_user_roles_delete_only(user, rolenames, fault) ==
    IF ~opened THEN Failed("AssertionError", members)
    ELSE IF fault THEN Failed("OperationalError", members)
    ELSE Wrote(FALSE, update_user_roles_delete(user))

update_user_roles(user, rolenames, fault) ==
    IF ~opened THEN Failed("AssertionError", members)
    ELSE IF fault THEN Failed("OperationalError", members)
    \* the DELETE has run when self._members.insert().select_from(...) is
    \* evaluated: an Insert construct has no select_from method
    ELSE Failed("AttributeError",
                Rollback(members, update_user_roles_delete(user)))

\* a faulty variant: the two groupings exchanged
permissions_swapped(roles_by_users, fault) ==
    LET rows == {[user_name |-> j.user.name, role_name |-> j.role.name] :
                    j \in MemberJoin}
        key(row) == IF roles_by_users THEN row.role_name ELSE row.user_name
        value(row) == IF roles_by_users THEN row.user_name ELSE row.role_name
        dct == [k \in {key(row) : row \in rows} |->
                    {value(row) : row \in {x \in rows : key(x) = k}}]
    IN  IF ~opened THEN Exc("AssertionError")
        ELSE IF fault THEN Exc("OperationalError")
        ELSE Ret(dct)

permissions(roles_by_users, fault) ==
    LET rows == {[user_name |-> j.user.name, role_name |-> j.role.name] :
                    j \in MemberJoin}
        key(row) == IF roles_by_users THEN row.user_name ELSE row.role_name
        value(row) == IF roles_by_users THEN row.role_name ELSE row.user_name
        dct == [k \in {key(row) : row \in rows} |->
                    {value(row) : row \in {x \in rows : key(x) = k}}]
    IN  IF ~opened THEN Exc("AssertionError")
        ELSE IF fault THEN Exc("OperationalError")
        ELSE Ret(dct)

\* a faulty variant: the seed overwrites the admin row it finds
open_reset_admin(salt, fault) ==
    IF fault THEN Failed("OperationalError", users)
    ELSE IF UserRows("admin") # {}
         THEN [add_user_insert_replace("admin", "admin", salt, TRUE)
                  EXCEPT !.ret = None]
         ELSE Wrote(None, users)

\* open(): reflect, define and create the missing tables, then the admin seed
\* (self._users is set by then, so user_exists and add_user pass their asserts)
open(salt, fault) ==
    IF fault THEN Failed("OperationalError", users)
    ELSE IF UserRows("admin") # {}
         THEN [add_user_insert("admin", "admin", salt, TRUE) EXCEPT !.ret = None]
         ELSE Wrote(None, users)

(***************************************************************************)
(* The calls.                                                              *)
(***************************************************************************)
AllTables == {"users", "roles", "members"}

\* no transaction of update_user_roles is open
NoTxn == [active |-> FALSE, user |-> "", rolenames |-> {},
          before |-> {}, uncommitted |-> {}]

Record(op, args, fault, out) ==
    /\ last_op' = op
    /\ last_raised' = out.raised
    /\ last_fault' = fault
    /\ last_args' = args
    /\ last_ret' = out.ret

\* a query: nothing but the record of the call changes
Query(op, args, fault, out) ==
    /\ fault => opened
    /\ Record(op, args, fault, out)
    /\ UNCHANGED <<txn, tables, opened, users, roles, members, password_of>>

Init ==
    /\ tables = {}
    /\ opened = FALSE
    /\ users = {}
    /\ roles = {}
    /\ members = {}
    /\ password_of = [n \in UserNames |-> None]
    /\ txn = NoTxn
    /\ last_op = "__init__"
    /\ last_raised = ""
    /\ last_fault = FALSE
    /\ last_args = <<>>
    /\ last_ret = None

\* a process starts: make_application constructs the service, which holds no
\* table handle, over the store as earlier processes left it
make_application ==
    /\ Record("__init__", <<>>, FALSE, Ret(None))
    /\ opened' = FALSE
    /\ txn' = NoTxn
    /\ UNCHANGED <<tables, users, roles, members, password_of>>

Open(salt, fault) ==
    LET out == open(salt, fault)
    IN  /\ Record("open", <<>>, fault, out)
        /\ tables' = IF fault THEN tables ELSE AllTables
        /\ opened' = IF fault THEN opened ELSE TRUE
        /\ users' = out.rows
        /\ password_of' = IF out.rows # users
                          THEN [password_of EXCEPT !["admin"] = Some("admin")]
                          ELSE password_of
        /\ UNCHANGED <<txn, roles, members>>

Authenticate(username, password, fault) ==
    Query("authenticate", <<username, password>>, fault,
          authenticate(username, password, fault))

IsValidUser(user, fault) ==
    Query("is_valid_user", <<user>>, fault, is_valid_user(user, fault))

Authorizations(user, fault) ==
    Query("authorizations", <<user>>, fault, authorizations(user, fault))

UserExists(name, fault) ==
    Query("user_exists", <<name>>, fault, user_exists(name, fault))

UserIsEnabled(name, fault) ==
    Query("user_is_enabled", <<name>>, fault, user_is_enabled(name, fault))

CheckPassword(name, password, fault) ==
    Query("check_password", <<name, password>>, fault,
          check_password(name, password, fault))

RoleExists(group, fault) ==
    Query("role_exists", <<group>>, fault, role_exists(group, fault))

HasRole(user, group, fault) ==
    Query("has_role", <<user, group>>, fault, has_role(user, group, fault))

RoleUsers(role, fault) ==
    Query("role_users", <<role>>, fault, role_users(role, fault))

UserRoles(user, fault) ==
    Query("user_roles", <<user>>, fault, user_roles(user, fault))

Permissions(roles_by_users, fault) ==
    Query("permissions", <<roles_by_users>>, fault,
          permissions(roles_by_users, fault))

AddUser(name, password, salt, is_enabled, fault) ==
    LET out == add_user(name, password, salt, is_enabled, fault)
    IN  /\ fault => opened
        /\ \A u \in out.rows : u.user_id <= MaxId
        /\ Record("add_user", <<name, password, is_enabled>>, fault, out)
        /\ users' = out.rows
        /\ password_of' = IF out.raised = "" /\ out.ret
                          THEN [password_of EXCEPT ![name] = Some(password)]
                          ELSE password_of
        /\ UNCHANGED <<txn, tables, opened, roles, members>>

ChangePassword(name, password, salt, fault) ==
    LET out == change_password(name, password, salt, fault)
    IN  /\ fault => opened
        /\ Record("change_password", <<name, password>>, fault, out)
        /\ users' = out.rows
        /\ password_of' = IF out.raised = "" /\ out.ret
                          THEN [password_of EXCEPT ![name] = Some(password)]
                          ELSE password_of
        /\ UNCHANGED <<txn, tables, opened, roles, members>>

DeleteUser(name, fault) ==
    LET out == delete_user(name, fault)
    IN  /\ fault => opened
        /\ Record("delete_user", <<name>>, fault, out)
        /\ users' = out.rows
        /\ password_of' = IF out.raised = "" /\ out.ret
                          THEN [password_of EXCEPT ![name] = None]
                          ELSE password_of
        /\ UNCHANGED <<txn, tables, opened, roles, members>>

AddRole(name, description, fault) ==
    LET out == add_role(name, description, fault)
    IN  /\ fault => opened
        /\ \A r \in out.rows : r.role_id <= MaxId
        /\ Record("add_role", <<name, description>>, fault, out)
        /\ roles' = out.rows
        /\ UNCHANGED <<txn, tables, opened, users, members, password_of>>

DeleteRole(name, fault) ==
    LET out == delete_role(name, fault)
    IN  /\ fault => opened
        /\ Record("delete_role", <<name>>, fault, out)
        /\ roles' = out.rows
        /\ UNCHANGED <<txn, tables, opened, users, members, password_of>>

\* grant, as long as the member ids stay within `limit`
GrantWithin(limit, user, role, fault) ==
    LET out == grant(user, role, fault)
    IN  /\ fault => opened
        /\ \A m \in out.rows : m.member_id <= limit
        /\ Record("grant", <<user, role>>, fault, out)
        /\ members' = out.rows
        /\ UNCHANGED <<txn, tables, opened, users, roles, password_of>>

Grant(user, role, fault) == GrantWithin(MaxMemberId, user, role, fault)

Revoke(user, role) ==
    LET out == revoke(user, role, FALSE)
    IN  /\ Record("revoke", <<user, role>>, FALSE, out)
        /\ members' = out.rows
        /\ UNCHANGED <<txn, tables, opened, users, roles, password_of>>

UpdateUserRoles(user, rolenames, fault) ==
    LET out == update_user_roles(user, rolenames, fault)
    IN  /\ fault => opened
        /\ Record("update_user_roles", <<user, rolenames>>, fault, out)
        /\ members' = out.rows
        /\ UNCHANGED <<txn, tables, opened, users, roles, password_of>>

\* update_user_roles as the callers beside it see it, first step: the
\* transaction is begun and the DELETE executed; what it removes is gone for
\* the connection of the transaction only
UpdateUserRolesDelete(user, rolenames) ==
    /\ opened
    /\ ~txn.active
    /\ txn' = [active |-> TRUE, user |-> user, rolenames |-> rolenames,
               before |-> members,
               uncommitted |-> update_user_roles_delete(user)]
    /\ UNCHANGED <<tables, opened, users, roles, members, password_of,
                   last_op, last_raised, last_fault, last_args, last_ret>>

\* second step: building the INSERT raises and the exception leaves the
\* transaction block
UpdateUserRolesRaise ==
    LET out == update_user_roles(txn.user, txn.rolenames, FALSE)
    IN  /\ txn.active
        /\ Record("update_user_roles", <<txn.user, txn.rolenames>>, FALSE, out)
        /\ members' = out.rows
        /\ txn' = NoTxn
        /\ UNCHANGED <<tables, opened, users, roles, password_of>>

(***************************************************************************)
(* The credential store and the facade over it, with every input and the   *)
(* store failing under any call.                                           *)
(***************************************************************************)
CredentialNext ==
    \/ \E salt \in Salts, fault \in BOOLEAN : Open(salt, fault)
    \/ \E u \in UserNames, p \in Passwords, fault \in BOOLEAN :
            Authenticate(u, p, fault)
    \/ \E u \in UserNames, fault \in BOOLEAN : IsValidUser(u, fault)
    \/ \E u \in UserNames, fault \in BOOLEAN : UserExists(u, fault)
    \/ \E u \in UserNames, fault \in BOOLEAN : UserIsEnabled(u, fault)
    \/ \E u \in UserNames, p \in Passwords, fault \in BOOLEAN :
            CheckPassword(u, p, fault)
    \/ \E u \in UserNames, p \in Passwords, s \in Salts, e \in BOOLEAN,
          fault \in BOOLEAN : AddUser(u, p, s, e, fault)
    \/ \E u \in UserNames, p \in Passwords, s \in Salts, fault \in BOOLEAN :
            ChangePassword(u, p, s, fault)
    \/ \E u \in UserNames, fault \in BOOLEAN : DeleteUser(u, fault)

CredentialSpec == Init /\ [][CredentialNext]_vars

(***************************************************************************)
(* The role store and the membership engine over users of one credential,  *)
(* with a store that answers.                                              *)
(***************************************************************************)
MembershipNext ==
    \/ Open("s1", FALSE)
    \/ \E u \in UserNames : AddUser(u, "p", "s1", TRUE, FALSE)
    \/ \E u \in UserNames : DeleteUser(u, FALSE)
    \/ \E r \in RoleNames, d \in Descriptions : AddRole(r, d, FALSE)
    \/ \E r \in RoleNames : DeleteRole(r, FALSE)
    \/ \E u \in UserNames, r \in RoleNames : Grant(u, r, FALSE)
    \/ \E u \in UserNames, r \in RoleNames : Revoke(u, r)
    \/ \E u \in UserNames, rs \in SUBSET RoleNames :
            UpdateUserRoles(u, rs, FALSE)
    \/ \E u \in UserNames, r \in RoleNames : HasRole(u, r, FALSE)
    \/ \E r \in RoleNames : RoleUsers(r, FALSE)
    \/ \E u \in UserNames : UserRoles(u, FALSE)
    \/ \E u \in UserNames : Authorizations(u, FALSE)
    \/ \E b \in BOOLEAN : Permissions(b, FALSE)

MembershipSpec == Init /\ [][MembershipNext]_vars

(***************************************************************************)
(* The service over a store that outlives it: processes start, open() and  *)
(* change users, one role and its memberships.                             *)
(***************************************************************************)
LifecycleNext ==
    \/ make_application
    \/ \E salt \in Salts, fault \in BOOLEAN : Open(salt, fault)
    \/ \E u \in UserNames, e \in BOOLEAN : AddUser(u, "p", "s1", e, FALSE)
    \/ \E u \in UserNames : ChangePassword(u, "ps", "s2", FALSE)
    \/ \E u \in UserNames : DeleteUser(u, FALSE)
    \/ AddRole("admin", "none", FALSE)
    \/ \E u \in UserNames : Grant(u, "admin", FALSE)
    \/ \E u \in UserNames : IsValidUser(u, FALSE)
    \/ \E u \in UserNames : UserRoles(u, FALSE)

LifecycleSpec == Init /\ [][LifecycleNext]_vars

(***************************************************************************)
(* The serving process.  start_server builds the application and serves    *)
(* it; the routes of the controller call the three facade operations.      *)
(* Nothing in the process calls open().  The store it finds is absent, or  *)
(* has the tables with at most one user.                                   *)
(***************************************************************************)
ServerInit ==
    \E t \in {{}, AllTables}, n \in UserNames, p \in Passwords, s \in Salts,
       e \in BOOLEAN, stored \in BOOLEAN :
        LET h == _hash_password(p, s)
            row == [user_id |-> 1, name |-> n, salt |-> h.salt,
                    hashed_password |-> h.hashed_password, is_enabled |-> e]
            held == stored /\ t = AllTables
        IN  /\ tables = t
            /\ opened = FALSE
            /\ users = IF held THEN {row} ELSE {}
            /\ roles = {}
            /\ members = {}
            /\ password_of = [x \in UserNames |->
                                IF held /\ x = n THEN Some(p) ELSE None]
            /\ txn = NoTxn
            /\ last_op = "__init__"
            /\ last_raised = ""
            /\ last_fault = FALSE
            /\ last_args = <<>>
            /\ last_ret = None

ServerNext ==
    \/ make_application
    \/ \E u \in UserNames, p \in Passwords : Authenticate(u, p, FALSE)
    \/ \E u \in UserNames : IsValidUser(u, FALSE)
    \/ \E u \in UserNames : Authorizations(u, FALSE)

ServerSpec == ServerInit /\ [][ServerNext]_vars

(***************************************************************************)
(* The three tables under the calls that insert rows, with as many         *)
(* memberships as users; roles are not deleted.                            *)
(***************************************************************************)
ConstraintNext ==
    \/ Open("s1", FALSE)
    \/ \E u \in UserNames : AddUser(u, "p", "s1", TRUE, FALSE)
    \/ \E u \in UserNames : DeleteUser(u, FALSE)
    \/ \E r \in RoleNames, d \in Descriptions : AddRole(r, d, FALSE)
    \/ \E u \in UserNames, r \in RoleNames : GrantWithin(MaxId, u, r, FALSE)

ConstraintSpec == Init /\ [][ConstraintNext]_vars

(***************************************************************************)
(* update_user_roles in its two steps beside other callers.  The store     *)
(* admits one writing transaction at a time: while one is open the other   *)
(* writers wait and the readers read what is committed.                    *)
(***************************************************************************)
TransactionNext ==
    \/ ~txn.active /\ Open("s1", FALSE)
    \/ ~txn.active /\ \E u \in UserNames : AddUser(u, "p", "s1", TRUE, FALSE)
    \/ ~txn.active /\ \E r \in RoleNames, d \in Descriptions :
                          AddRole(r, d, FALSE)
    \/ ~txn.active /\ \E u \in UserNames, r \in RoleNames : Grant(u, r, FALSE)
    \/ \E u \in UserNames, rs \in SUBSET RoleNames :
            UpdateUserRolesDelete(u, rs)
    \/ UpdateUserRolesRaise
    \/ \E u \in UserNames : UserRoles(u, FALSE)
    \/ \E u \in UserNames : Authorizations(u, FALSE)

TransactionSpec == Init /\ [][TransactionNext]_vars

(***************************************************************************)
(* Every call with every input.  The specifications above that start in   *)
(* Init are this one with fewer calls and inputs: each of their behaviours *)
(* is one of its behaviours.                                               *)
(***************************************************************************)
Next ==
    \/ make_application
    \/ \E u \in UserNames, rs \in SUBSET RoleNames :
            UpdateUserRolesDelete(u, rs)
    \/ UpdateUserRolesRaise
    \/ \E salt \in Salts, fault \in BOOLEAN : Open(salt, fault)
    \/ \E u \in UserNames, p \in Passwords, fault \in BOOLEAN :
            Authenticate(u, p, fault)
    \/ \E u \in UserNames, fault \in BOOLEAN : IsValidUser(u, fault)
    \/ \E u \in UserNames, fault \in BOOLEAN : Authorizations(u, fault)
    \/ \E u \in UserNames, fault \in BOOLEAN : UserExists(u, fault)
    \/ \E u \in UserNames, fault \in BOOLEAN : UserIsEnabled(u, fault)
    \/ \E u \in UserNames, p \in Passwords, fault \in BOOLEAN :
            CheckPassword(u, p, fault)
    \/ \E r \in RoleNames, fault \in BOOLEAN : RoleExists(r, fault)
    \/ \E u \in UserNames, r \in RoleNames, fault \in BOOLEAN :
            HasRole(u, r, fault)
    \/ \E r \in RoleNames, fault \in BOOLEAN : RoleUsers(r, fault)
    \/ \E u \in UserNames, fault \in BOOLEAN : UserRoles(u, fault)
    \/ \E b \in BOOLEAN, fault \in BOOLEAN : Permissions(b, fault)
    \/ \E u \in UserNames, p \in Passwords, s \in Salts, e \in BOOLEAN,
          fault \in BOOLEAN : AddUser(u, p, s, e, fault)
    \/ \E u \in UserNames, p \in Passwords, s \in Salts, fault \in BOOLEAN :
            ChangePassword(u, p, s, fault)
    \/ \E u \in UserNames, fault \in BOOLEAN : DeleteUser(u, fault)
    \/ \E r \in RoleNames, d \in Descriptions, fault \in BOOLEAN :
            AddRole(r, d, fault)
    \/ \E r \in RoleNames, fault \in BOOLEAN : DeleteRole(r, fault)
    \/ \E u \in UserNames, r \in RoleNames, fault \in BOOLEAN :
            Grant(u, r, fault)
    \/ \E u \in UserNames, r \in RoleNames : Revoke(u, r)
    \/ \E u \in UserNames, rs \in SUBSET RoleNames, fault \in BOOLEAN :
            UpdateUserRoles(u, rs, fault)

Spec == Init /\ [][Next]_vars

(***************************************************************************)
(* Properties.  In each, last_op is the call that produced the state it is *)
(* read in, so the tables beside it are the tables as the call left them;  *)
(* in a step formula the unprimed tables are those the call found.         *)
(***************************************************************************)
\* the stored digest of `name` in `rows` is the digest of p and the stored salt
Verifies(rows, name, p) ==
    \E row \in rows :
        row.name = name /\ row.hashed_password = sha512(p \o row.salt)

\* a membership row of `ms` links the user and the role of these names
Linked(ms, us, rs, user, role) ==
    \E m \in ms, u \in us, r \in rs :
        /\ u.name = user /\ m.user_id = u.user_id
        /\ r.name = role /\ m.role_id = r.role_id

Called(op) == last_op = op
Answered(op) == last_op = op /\ last_raised = ""

\* C1: authenticate returns none for a user whose is_enabled flag is false,
\* whatever the password, the stored one included.
C1_DisabledUserNeverAuthenticates ==
    Called("authenticate") =>
        ((\E row \in UserRows(last_args[1]) : ~row.is_enabled)
            => last_ret = None)

\* C2: check_password(name, p) is true exactly when the user has a row and p
\* is the password of its last successful add_user or change_password; for a
\* name without a row it is false for every password.
C2_CheckPasswordMatchesCredential ==
    Answered("check_password") =>
        /\ last_ret = (password_of[last_args[1]] = Some(last_args[2]))
        /\ UserRows(last_args[1]) = {} => ~last_ret

C2_Witness ==
    /\ Answered("check_password")
    /\ last_ret
    /\ \E row \in UserRows(last_args[1]) : row.salt = "s1"
    /\ last_args[2] = "p"

\* C3: authenticate returns the username exactly when check_password
\* succeeds, and returns none, raising nothing, when check_password raises
\* (the store failing, the repository not initialised).
C3_AuthenticateFailsClosed ==
    Called("authenticate") =>
        LET checked == check_password(last_args[1], last_args[2], last_fault)
        IN  /\ last_raised = ""
            /\ last_ret \in {None, Some(last_args[1])}
            /\ (last_ret = Some(last_args[1]))
                    <=> (checked.raised = "" /\ checked.ret)
            /\ checked.raised # "" => last_ret = None

C3_Witness ==
    /\ Called("authenticate")
    /\ last_fault
    /\ password_of[last_args[1]] = Some(last_args[2])
    /\ last_ret = None

\* C4: once open() has run, is_valid_user(name) is true exactly when a user
\* row of that name exists and is enabled.
C4_IsValidUserIffEnabledRow ==
    (Called("is_valid_user") /\ opened /\ ~last_fault) =>
        /\ last_raised = ""
        /\ last_ret = (\E row \in users :
                            row.name = last_args[1] /\ row.is_enabled)

C4_Witness ==
    /\ Answered("is_valid_user")
    /\ ~last_ret
    /\ UserRows(last_args[1]) # {}

\* C5: for an existing user u and a set R of existing role names,
\* update_user_roles(u, R) leaves user_roles(u) and authorizations(u) equal
\* to R.
C5_UpdateUserRolesSetsExactlyR ==
    (/\ Called("update_user_roles")
     /\ UserRows(last_args[1]) # {}
     /\ last_args[2] \subseteq {r.name : r \in roles}) =>
        /\ user_roles(last_args[1], FALSE).ret = last_args[2]
        /\ authorizations(last_args[1], FALSE).ret = last_args[2]

\* C6: for an existing user and role, grant returns true when the user does
\* not hold the role and false, raising nothing, when the user does; either
\* way one membership row links the pair afterwards.
C6_GrantIdempotent ==
    [][(/\ last_op' = "grant"
        /\ UserRows(last_args'[1]) # {}
        /\ RoleRows(last_args'[2]) # {}) =>
            /\ last_raised' = ""
            /\ last_ret' = ~Linked(members, users, roles,
                                   last_args'[1], last_args'[2])
            /\ Cardinality({m \in members' :
                    \E u \in UserRows(last_args'[1]),
                       r \in RoleRows(last_args'[2]) :
                        m.user_id = u.user_id /\ m.role_id = r.role_id}) = 1
      ]_vars

\* C7: revoke(u, r) of a role u holds returns true and leaves has_role(u, r)
\* false; the same revoke called again next returns false.
C7_RevokeRemovesPairing ==
    [][/\ (/\ last_op' = "revoke"
           /\ Linked(members, users, roles, last_args'[1], last_args'[2])) =>
                /\ last_raised' = ""
                /\ last_ret' = TRUE
                /\ ~Linked(members', users', roles',
                           last_args'[1], last_args'[2])
       /\ (/\ last_op' = "revoke"
           /\ last_op = "revoke" /\ last_raised = "" /\ last_ret = TRUE
           /\ last_args' = last_args) =>
                /\ last_raised' = ""
                /\ last_ret' = FALSE
      ]_vars

\* C8: add_user with a name that has a row returns false and raises nothing;
\* the users table is unchanged, it holds one row of that name, the stored
\* password still verifies and no other does.
C8_DuplicateAddUserChangesNothing ==
    [][(/\ last_op' = "add_user"
        /\ ~last_fault'
        /\ UserRows(last_args'[1]) # {}) =>
            /\ last_raised' = ""
            /\ last_ret' = FALSE
            /\ users' = users
            /\ Cardinality({u \in users' : u.name = last_args'[1]}) = 1
            /\ \A p \in Passwords :
                    Verifies(users', last_args'[1], p)
                        = (password_of[last_args'[1]] = Some(p))
      ]_vars

C8_Witness ==
    /\ Answered("add_user")
    /\ ~last_ret
    /\ password_of[last_args[1]] # Some(last_args[2])
    /\ \E row \in UserRows(last_args[1]) : row.is_enabled # last_args[3]

\* C9: change_password(name, new) of an existing user returns true, after
\* which check_password accepts new and no other password; for a name
\* without a row it returns false and changes no row.
C9_ChangePasswordReplacesCredential ==
    [][(last_op' = "change_password" /\ ~last_fault' /\ opened) =>
            /\ last_raised' = ""
            /\ last_ret' = (UserRows(last_args'[1]) # {})
            /\ UserRows(last_args'[1]) = {} => users' = users
            /\ UserRows(last_args'[1]) # {} =>
                \A p \in Passwords :
                    Verifies(users', last_args'[1], p) = (p = last_args'[2])
      ]_vars

C9_Witness ==
    /\ Answered("change_password")
    /\ last_ret
    /\ \E row \in UserRows(last_args[1]) :
            row.hashed_password = sha512(last_args[2] \o row.salt)
    /\ last_args[2] = "ps"

\* the membership relation grouped by user and grouped by role
RolesByUser ==
    [u \in {j.user.name : j \in MemberJoin} |->
        {j.role.name : j \in {x \in MemberJoin : x.user.name = u}}]

UsersByRole ==
    [r \in {j.role.name : j \in MemberJoin} |->
        {j.user.name : j \in {x \in MemberJoin : x.role.name = r}}]

\* C10 as stated: permissions(roles_by_users=true) is keyed by role name and
\* permissions(roles_by_users=false) by user name.
C10_PermissionsKeyedByRoleWhenTrue ==
    Answered("permissions") =>
        last_ret = IF last_args[1] THEN UsersByRole ELSE RolesByUser

\* C10, amended: permissions(roles_by_users=true) is the membership relation
\* keyed by user name with the set of held role names as value, and
\* permissions(roles_by_users=false) is keyed by role name with the set of
\* member user names as value.
C10_PermissionsKeyedByUserWhenTrue ==
    Answered("permissions") =>
        last_ret = IF last_args[1] THEN RolesByUser ELSE UsersByRole

C10_Witness ==
    /\ Answered("permissions")
    /\ last_args[1]
    /\ last_ret = [u \in {"alice"} |-> {"admin"}]

(***************************************************************************)
(* C11: grant(user, role) with a user name or a role name that resolves to *)
(* no row returns false and leaves the membership relation as it was.      *)
(***************************************************************************)
C11_GrantUnresolvedNoEffect ==
    [][(/\ last_op' = "grant"
        /\ opened
        /\ ~last_fault'
        /\ \/ UserRows(last_args'[1]) = {}
           \/ RoleRows(last_args'[2]) = {})
       => (/\ last_raised' = ""
           /\ last_ret' = FALSE
           /\ members' = members)]_vars

\* a grant of a role that exists to a user that does not, other
\* memberships being held, has returned false
C11_Witness ==
    /\ Answered("grant")
    /\ last_ret = FALSE
    /\ UserRows(last_args[1]) = {}
    /\ RoleRows(last_args[2]) # {}
    /\ members # {}

(***************************************************************************)
(* C12: update_user_roles(user, roles) returns true exactly when it has    *)
(* inserted a membership; with roles empty or naming no role that exists   *)
(* it returns false, and the user then holds no role.                      *)
(***************************************************************************)
C12_UpdateUserRolesResult ==
    (Called("update_user_roles") /\ opened /\ ~last_fault)
        => /\ last_raised = ""
           /\ last_ret = (/\ UserRows(last_args[1]) # {}
                          /\ \E r \in last_args[2] : RoleRows(r) # {})
           /\ (\A r \in last_args[2] : RoleRows(r) = {})
                => \A r \in RoleNames :
                     ~Linked(members, users, roles, last_args[1], r)

(***************************************************************************)
(* C13: when open() has completed, a user named admin exists, is enabled   *)
(* and verifies with the default password "admin" (open() seeds it on a    *)
(* store that has no such user).                                           *)
(***************************************************************************)
C13_OpenSeedsAdmin ==
    Answered("open")
        => /\ \E u \in UserRows("admin") : u.is_enabled
           /\ Verifies(users, "admin", "admin")

(***************************************************************************)
(* C14: open() on a store that has the tables and a user named admin       *)
(* leaves every user row (the salt, the hashed password and is_enabled of  *)
(* admin among them), every role row and every membership row as it was.   *)
(***************************************************************************)
C14_OpenKeepsExistingData ==
    [][(last_op' = "open" /\ tables = AllTables /\ UserRows("admin") # {})
       => (/\ tables' = tables
           /\ users' = users
           /\ roles' = roles
           /\ members' = members)]_vars

\* open() has completed in a new process over a store where admin is
\* disabled and has changed the password, beside another user, a role and
\* a membership
C14_Witness ==
    /\ Answered("open")
    /\ opened
    /\ \E u \in UserRows("admin") : ~u.is_enabled /\ u.salt = "s2"
    /\ Verifies(users, "admin", "ps")
    /\ UserRows("alice") # {}
    /\ roles # {}
    /\ members # {}

(***************************************************************************)
(* C15: every operation called before open() has completed, the three      *)
(* facade operations included, fails with the precondition error: it       *)
(* returns no ordinary result (no boolean, no set, no none).               *)
(***************************************************************************)
C15_BeforeOpenPreconditionError ==
    (~opened /\ last_op \notin {"__init__", "open"})
        => (last_raised = "AssertionError" /\ last_ret = NoResult)

(***************************************************************************)
(* C16: in every run of the process open() completes before the first      *)
(* authenticate, is_valid_user or authorizations call is served: no facade *)
(* operation is dispatched against a service that has not been opened.     *)
(***************************************************************************)
C16_OpenBeforeFacade ==
    last_op \in {"authenticate", "is_valid_user", "authorizations"} => opened

(***************************************************************************)
(* C17: in every reachable state each membership row refers to a user row  *)
(* and to a role row that exist; deleting a user or a role that holds      *)
(* memberships removes them or is rejected.                                *)
(***************************************************************************)
C17_ReferentialIntegrity ==
    \A m \in members : m.user_id \in UserIds /\ m.role_id \in RoleIds

(***************************************************************************)
(* C18: in every reachable state no two user rows have the same name, no   *)
(* two role rows have the same name and no two membership rows have the    *)
(* same (user_id, role_id) pair.                                           *)
(***************************************************************************)
C18_Uniqueness ==
    /\ \A u1, u2 \in users : u1.name = u2.name => u1 = u2
    /\ \A r1, r2 \in roles : r1.name = r2.name => r1 = r2
    /\ \A m1, m2 \in members :
          (m1.user_id = m2.user_id /\ m1.role_id = m2.role_id) => m1 = m2

\* a second add_role of a name has been turned down, two users, two roles
\* and two memberships being stored
C18_Witness ==
    /\ Answered("add_role")
    /\ last_ret = FALSE
    /\ RoleRows(last_args[1]) # {}
    /\ Cardinality(users) = 2
    /\ Cardinality(roles) = 2
    /\ Cardinality(members) = 2

(***************************************************************************)
(* C19: of several callers that create the same user name, the same role   *)
(* name or the same (user, role) grant at once, one gets true, every other *)
(* gets the boolean false without an exception, and one row results.  The  *)
(* store runs the one INSERT of each call as a transaction of its own, so  *)
(* the calls take effect one after the other: the step below is the call   *)
(* of a caller that comes right after the winner.                          *)
(***************************************************************************)
C19_RacingCreatesOneWinner ==
    [][(/\ last_op \in {"add_user", "add_role", "grant"}
        /\ last_raised = ""
        /\ last_ret = TRUE
        /\ last_op' = last_op
        /\ ~last_fault'
        /\ last_args'[1] = last_args[1]
        /\ (last_op = "grant" => last_args'[2] = last_args[2]))
       => (/\ last_raised' = ""
           /\ last_ret' = FALSE
           /\ last_op = "add_user"
                => Cardinality({u \in users' : u.name = last_args[1]}) = 1
           /\ last_op = "add_role"
                => Cardinality({r \in roles' : r.name = last_args[1]}) = 1
           /\ last_op = "grant"
                => Cardinality({m \in members' :
                        \E u \in users', r \in roles' :
                            /\ u.name = last_args[1] /\ m.user_id = u.user_id
                            /\ r.name = last_args[2] /\ m.role_id = r.role_id})
                   = 1)]_vars

\* the role names a user holds by the membership rows `ms`
RolesHeld(ms, user) == {r \in RoleNames : Linked(ms, users, roles, user, r)}

(***************************************************************************)
(* C20: update_user_roles runs its DELETE and its INSERT as one            *)
(* transaction.  A user_roles or authorizations call beside it returns     *)
(* the whole role set of before the call or the whole new one, never a     *)
(* state in between; and when the operation fails after the DELETE, the    *)
(* memberships of before the call are all still there.                     *)
(***************************************************************************)
C20_UpdateUserRolesIsOneTransaction ==
    [][/\ (txn.active /\ txn'.active
              /\ last_op' \in {"user_roles", "authorizations"})
          => /\ last_raised' = ""
             /\ \/ last_ret' = RolesHeld(txn.before, last_args'[1])
                \/ /\ last_args'[1] = txn.user
                   /\ UserRows(txn.user) # {}
                   /\ last_ret' = {r \in txn.rolenames : RoleRows(r) # {}}
       /\ (txn.active /\ ~txn'.active /\ last_raised' # "")
          => members' = txn.before]_vars

\* a reader has got the role of before the call while the DELETE of an
\* update_user_roles to another role has emptied the table within its
\* transaction
C20_Witness ==
    /\ txn.active
    /\ txn.rolenames = {"staff"}
    /\ RoleRows("staff") # {}
    /\ txn.before # {}
    /\ txn.uncommitted = {}
    /\ Answered("user_roles")
    /\ last_args[1] = txn.user
    /\ last_ret = {"admin"}

(***************************************************************************)
(* C21: update_user_roles(u, R) changes the memberships of u only: every   *)
(* other user holds the same roles after the call as before it, whether    *)
(* the call returns or fails.                                              *)
(***************************************************************************)
C21_UpdateUserRolesKeepsOtherUsers ==
    [][last_op' = "update_user_roles"
       => \A v \in UserNames \ {last_args'[1]}, r \in RoleNames :
             Linked(members', users', roles', v, r)
                <=> Linked(members, users, roles, v, r)]_vars

\* update_user_roles of one user has ended while another user holds a role
\* by a membership row that the DELETE of the call matches
C21_Witness ==
    /\ Called("update_user_roles")
    /\ opened
    /\ update_user_roles_delete(last_args[1]) # members
    /\ \E v \in UserNames \ {last_args[1]}, r \in RoleNames :
          Linked(members, users, roles, v, r)

(***************************************************************************)
(* C22: revoke(u, r) removes no membership but the one that links u to r:  *)
(* the rows of another user or another role are as they were, and when u   *)
(* does not hold r the membership relation is unchanged and the call       *)
(* returns false.                                                          *)
(***************************************************************************)
C22_RevokeRemovesNothingElse ==
    [][(last_op' = "revoke" /\ opened)
       => /\ \A m \in members :
                (\A u \in users, r \in roles :
                    ~(/\ u.name = last_args'[1] /\ m.user_id = u.user_id
                      /\ r.name = last_args'[2] /\ m.role_id = r.role_id))
                => m \in members'
          /\ ~Linked(members, users, roles, last_args'[1], last_args'[2])
                => /\ members' = members
                   /\ last_raised' = ""
                   /\ last_ret' = FALSE]_vars

(***************************************************************************)
(* C23: a newly created user holds no role: right after add_user(name,     *)
(* ...) has returned true, authorizations(name) is empty and               *)
(* has_role(name, r) is false for every role r, whatever calls came        *)
(* before (a grant and the delete_user of its user among them).            *)
(***************************************************************************)
C23_NewUserHoldsNoRole ==
    (Answered("add_user") /\ last_ret = TRUE)
        => /\ authorizations(last_args[1], FALSE).ret = {}
           /\ \A r \in RoleNames : has_role(last_args[1], r, FALSE).ret = FALSE

\* the pair is in the mapping `dct` of permissions, under the key k
InMapping(dct, k, v) == k \in DOMAIN dct /\ v \in dct[k]

(***************************************************************************)
(* C24: the four membership lookups agree in every reachable state of an   *)
(* opened service: for every user name u and role name r, has_role(u, r)   *)
(* is true iff r is in user_roles(u), iff u is in role_users(r), iff the   *)
(* pair is in the mapping of permissions, in either grouping; and what a   *)
(* lookup has just returned is what the others give in that state.         *)
(***************************************************************************)
C24_LookupsAgree ==
    opened =>
        /\ \A u \in UserNames, r \in RoleNames :
              LET held == has_role(u, r, FALSE).ret
              IN  /\ held <=> r \in user_roles(u, FALSE).ret
                  /\ held <=> u \in role_users(r, FALSE).ret
                  /\ held <=> InMapping(permissions(TRUE, FALSE).ret, u, r)
                  /\ held <=> InMapping(permissions(FALSE, FALSE).ret, r, u)
        /\ Answered("has_role")
              => last_ret = (last_args[2] \in user_roles(last_args[1], FALSE).ret)
        /\ Answered("user_roles")
              => last_ret = {r \in RoleNames :
                                last_args[1] \in role_users(r, FALSE).ret}
        /\ Answered("role_users")
              => last_ret = {u \in UserNames :
                                has_role(u, last_args[1], FALSE).ret}

\* has_role has answered true for one user and role while the other user
\* is stored and does not hold the role, and the other role is stored and
\* not held
C24_Witness ==
    /\ Answered("has_role")
    /\ last_ret = TRUE
    /\ \E u \in UserNames :
          UserRows(u) # {} /\ ~has_role(u, last_args[2], FALSE).ret
    /\ \E r \in RoleNames :
          RoleRows(r) # {} /\ ~has_role(last_args[1], r, FALSE).ret

====
